---- MODULE Spec2Model ----
(***************************************************************************)
(* Model of the client-side search / filter / sort components of the blog  *)
(* (NotesSearchAndFilter, SearchAndFilter, MavenGoalsSearch,               *)
(* MicronautFeaturesTable).  Each mounted component is a state machine     *)
(* whose state is its useState cells; the derived lists (useMemo) are      *)
(* operators of that state.  One component is mounted per behaviour; the   *)
(* variable view says which.  The build-time date map of astro.config.mjs  *)
(* and the feed endpoint rss.xml.ts are two further views.                 *)
(*                                                                         *)
(* JavaScript strings are sequences of one-character strings over Chars.   *)
(* An optional value (T | undefined, T | null) is a sequence of length at  *)
(* most one: None or Some(x).                                              *)
(***************************************************************************)
EXTENDS Integers, Sequences, FiniteSets, TLC

VARIABLES
    view,               \* which component is mounted
    \* NotesSearchAndFilter
    notes, searchQuery, selectedTags, selectedLanguage,
    \* SearchAndFilter (posts)
    posts, postSearchQuery, postSelectedTags,
    \* MavenGoalsSearch
    goals, query, expandedGoal, copiedGoal,
    \* MicronautFeaturesTable
    features, featureSearchQuery, typeFilter, sortField, sortDirection,
    copiedFeature,
    \* the browser: clipboard writes in flight, timers scheduled, console,
    \* and whether a rejection escaped copyToClipboard
    writes, timers, consoleErrors, uncaught,
    \* the build (astro.config.mjs): the content directories, the date map
    \* of getContentDates, the sitemap items serialized so far
    contentFiles, contentDates, sitemap,
    \* the feed endpoint (rss.xml.ts): the two collections and the items
    \* handed to rss()
    entries, feed

notesVars == <<notes, searchQuery, selectedTags, selectedLanguage>>
postsVars == <<posts, postSearchQuery, postSelectedTags>>
mavenVars == <<goals, query, expandedGoal, copiedGoal>>
micronautVars == <<features, featureSearchQuery, typeFilter, sortField,
                   sortDirection, copiedFeature>>
browserVars == <<writes, timers, consoleErrors, uncaught>>
buildVars == <<contentFiles, contentDates, sitemap, entries, feed>>
vars == <<view, notesVars, postsVars, mavenVars, micronautVars, browserVars,
          buildVars>>

-----------------------------------------------------------------------------
(* Bounds *)

MaxQueryLen == 2
MaxNotes == 2

-----------------------------------------------------------------------------
(* Strings *)

Chars == {"a", "A", "b", " "}

None == <<>>
Some(x) == <<x>>

\* UTF-16 code unit of a character
CharCode(c) ==
    CASE c = " " -> 32
      [] c = "A" -> 65
      [] c = "a" -> 97
      [] c = "b" -> 98
      [] c = "d" -> 100
      [] c = "j" -> 106
      [] c = "k" -> 107
      [] c = "l" -> 108
      [] c = "m" -> 109
      [] c = "n" -> 110
      [] c = "o" -> 111
      [] c = "v" -> 118
      [] c = "y" -> 121

LowerChar(c) ==
    CASE c = "A" -> "a"
      [] c = "B" -> "b"
      [] c = "D" -> "d"
      [] c = "E" -> "e"
      [] c = "L" -> "l"
      [] c = "T" -> "t"
      [] OTHER -> c

\* String.prototype.toLowerCase
toLowerCase(s) == [i \in 1..Len(s) |-> LowerChar(s[i])]

IsWhiteSpace(c) == c = " "

RECURSIVE trimStart(_)
trimStart(s) ==
    IF s # <<>> /\ IsWhiteSpace(Head(s)) THEN trimStart(Tail(s)) ELSE s

RECURSIVE trimEnd(_)
trimEnd(s) ==
    IF s # <<>> /\ IsWhiteSpace(s[Len(s)])
    THEN trimEnd(SubSeq(s, 1, Len(s) - 1))
    ELSE s

\* String.prototype.trim
trim(s) == trimEnd(trimStart(s))

\* String.prototype.includes: sub occurs in s at some position
includes(s, sub) ==
    \E i \in 0..(Len(s) - Len(sub)) : SubSeq(s, i + 1, i + Len(sub)) = sub

\* Array.prototype.includes with strict equality
arrayIncludes(arr, x) == \E i \in 1..Len(arr) : arr[i] = x

\* s < t in the order of Array.prototype.sort() without a comparator
\* (code unit by code unit, a proper prefix first)
StringLess(s, t) ==
    \E k \in 1..(Len(t)) :
        /\ k <= Len(s) + 1
        /\ \A j \in 1..(k - 1) : s[j] = t[j]
        /\ (k = Len(s) + 1 \/ CharCode(s[k]) < CharCode(t[k]))

RECURSIVE sortStringsDescending(_)
\* mutant: the sort runs from the greatest string down
sortStringsDescending(S) ==
    IF S = {} THEN <<>>
    ELSE LET m == CHOOSE x \in S : \A y \in S \ {x} : StringLess(y, x)
         IN  <<m>> \o sortStringsDescending(S \ {m})

RECURSIVE sortStrings(_)
\* Array.from(set).sort()
sortStrings(S) ==
    IF S = {} THEN <<>>
    ELSE LET m == CHOOSE x \in S : \A y \in S \ {x} : StringLess(x, y)
         IN  <<m>> \o sortStrings(S \ {m})

\* every string over Chars of length at most n
RECURSIVE StringsUpTo(_)
StringsUpTo(n) ==
    IF n = 0 THEN {<<>>}
    ELSE LET shorter == StringsUpTo(n - 1)
         IN  shorter \cup {Append(s, c) : s \in shorter, c \in Chars}

Queries == StringsUpTo(MaxQueryLen)

Range(s) == {s[i] : i \in 1..Len(s)}

\* sequences without repetition over S of length at most n
RECURSIVE InjectiveSeqs(_, _)
InjectiveSeqs(S, n) ==
    IF n = 0 THEN {<<>>}
    ELSE LET shorter == InjectiveSeqs(S, n - 1)
         IN  shorter \cup
             {Append(p[1], p[2]) :
                 p \in {pp \in shorter \X S : pp[2] \notin Range(pp[1])}}

-----------------------------------------------------------------------------
(* NotesSearchAndFilter *)

\* The notes a page may be given: slugs are unique, the description and the
\* language are optional, tags differ in case.
NotePool == {
    [slug |-> "n1", title |-> <<"A", "b">>, description |-> None,
     tags |-> << <<"a">>, <<"b">> >>, language |-> Some(<<"a">>)],
    [slug |-> "n2", title |-> <<"b", " ", "a">>, description |-> Some(<<"A">>),
     tags |-> << <<"A">> >>, language |-> None],
    [slug |-> "n3", title |-> <<"b">>, description |-> Some(<<"b", " ">>),
     tags |-> <<>>, language |-> Some(<<"A">>)],
    [slug |-> "n4", title |-> <<"b", "b">>, description |-> Some(<<>>),
     tags |-> << <<"a">>, <<"A">> >>, language |-> Some(<<"a">>)],
    [slug |-> "n5", title |-> <<"b", "a">>, description |-> Some(<<"a", "b">>),
     tags |-> << <<"b">> >>, language |-> None] }

TagPool == UNION {Range(n.tags) : n \in NotePool}

LanguagePool == {n.language[1] : n \in {m \in NotePool : m.language # None}}

\* note.data.description ?? ""
descriptionOrEmpty(note) ==
    IF note.description = None THEN <<>> ELSE note.description[1]

\* mutant: the query is lowercased but not trimmed
matchesSearchUntrimmed(note, q) ==
    LET normalizedSearch == toLowerCase(q)
    IN  \/ q = <<>>
        \/ includes(toLowerCase(note.title), normalizedSearch)
        \/ includes(toLowerCase(descriptionOrEmpty(note)), normalizedSearch)
        \/ \E i \in 1..Len(note.tags) :
              includes(toLowerCase(note.tags[i]), normalizedSearch)

\* mutant: the tags are not searched
matchesSearchNoTags(note, q) ==
    LET normalizedSearch == toLowerCase(trim(q))
    IN  \/ q = <<>>
        \/ includes(toLowerCase(note.title), normalizedSearch)
        \/ includes(toLowerCase(descriptionOrEmpty(note)), normalizedSearch)

matchesSearch(note, q) ==
    LET normalizedSearch == toLowerCase(trim(q))
    IN  \/ q = <<>>
        \/ includes(toLowerCase(note.title), normalizedSearch)
        \/ includes(toLowerCase(descriptionOrEmpty(note)), normalizedSearch)
        \/ \E i \in 1..Len(note.tags) :
              includes(toLowerCase(note.tags[i]), normalizedSearch)

\* mutant: some instead of every
matchesTagsSome(note, tags) ==
    \/ Len(tags) = 0
    \/ \E i \in 1..Len(tags) : arrayIncludes(note.tags, tags[i])

\* mutant: tags compared without regard to case
matchesTagsIgnoreCase(note, tags) ==
    \/ Len(tags) = 0
    \/ \A i \in 1..Len(tags) :
          \E j \in 1..Len(note.tags) :
              toLowerCase(note.tags[j]) = toLowerCase(tags[i])

matchesTags(note, tags) ==
    \/ Len(tags) = 0
    \/ \A i \in 1..Len(tags) : arrayIncludes(note.tags, tags[i])

\* mutant: no "nothing selected" case
matchesLanguageStrict(note, lang) ==
    note.language # None /\ note.language[1] = lang

\* mutant: the language is compared without regard to case
matchesLanguageIgnoreCase(note, lang) ==
    \/ lang = <<>>
    \/ (note.language # None /\ toLowerCase(note.language[1]) = toLowerCase(lang))

matchesLanguage(note, lang) ==
    \/ lang = <<>>
    \/ (note.language # None /\ note.language[1] = lang)

\* mutant: the tag and language predicates are OR-combined
noteMatchesEither(note, q, tags, lang) ==
    matchesSearch(note, q) /\ (matchesTags(note, tags) \/ matchesLanguage(note, lang))

\* mutant: a note passes on the text predicate or on the tag predicate
noteMatchesSearchOrTags(note, q, tags, lang) ==
    (matchesSearch(note, q) \/ matchesTags(note, tags)) /\ matchesLanguage(note, lang)

noteMatches(note, q, tags, lang) ==
    matchesSearch(note, q) /\ matchesTags(note, tags) /\ matchesLanguage(note, lang)

\* mutant: the first match is lost
filterNotesDropFirst(ns, q, tags, lang) ==
    LET kept == SelectSeq(ns, LAMBDA note : noteMatches(note, q, tags, lang))
    IN  IF kept = <<>> THEN <<>> ELSE Tail(kept)

\* notes.filter(...)
filterNotes(ns, q, tags, lang) ==
    SelectSeq(ns, LAMBDA note : noteMatches(note, q, tags, lang))

filteredNotes == filterNotes(notes, searchQuery, selectedTags, selectedLanguage)

\* mutant: the tag index is built from the notes that pass the filter
allTagsOfFiltered ==
    sortStrings(UNION {Range(filteredNotes[i].tags) : i \in 1..Len(filteredNotes)})

\* mutant: the tags are lowercased on their way into the index
allTagsFolded ==
    sortStrings(UNION {{toLowerCase(t) : t \in Range(notes[i].tags)} :
                          i \in 1..Len(notes)})

allTags == sortStrings(UNION {Range(notes[i].tags) : i \in 1..Len(notes)})

allLanguages ==
    sortStrings({notes[i].language[1] :
                    i \in {j \in 1..Len(notes) :
                              /\ notes[j].language # None
                              /\ notes[j].language[1] # <<>>}})

hasActiveFilters ==
    searchQuery # <<>> \/ Len(selectedTags) > 0 \/ selectedLanguage # <<>>

\* setSearchQuery(e.target.value)
SetSearchQuery(q) ==
    /\ view = "notes"
    /\ searchQuery' = q
    /\ UNCHANGED <<view, buildVars, notes, selectedTags, selectedLanguage,
                   postsVars, mavenVars, micronautVars, browserVars>>

\* mutant: the tag is appended whether or not it is selected
toggledAlwaysAppends(prev, tag) == Append(prev, tag)

toggled(prev, tag) ==
    IF arrayIncludes(prev, tag)
    THEN SelectSeq(prev, LAMBDA t : t # tag)
    ELSE Append(prev, tag)

\* one button per entry of allTags
ToggleTag(tag) ==
    /\ view = "notes"
    /\ arrayIncludes(allTags, tag)
    /\ selectedTags' = toggled(selectedTags, tag)
    /\ UNCHANGED <<view, buildVars, notes, searchQuery, selectedLanguage,
                   postsVars, mavenVars, micronautVars, browserVars>>

\* mutant: a change of language drops the selected tags
SelectLanguageClearsTags(lang) ==
    /\ view = "notes"
    /\ arrayIncludes(allLanguages, lang)
    /\ selectedLanguage' = IF selectedLanguage = lang THEN <<>> ELSE lang
    /\ selectedTags' = <<>>
    /\ UNCHANGED <<view, buildVars, notes, searchQuery,
                   postsVars, mavenVars, micronautVars, browserVars>>

\* one button per entry of allLanguages
SelectLanguage(lang) ==
    /\ view = "notes"
    /\ arrayIncludes(allLanguages, lang)
    /\ selectedLanguage' = IF selectedLanguage = lang THEN <<>> ELSE lang
    /\ UNCHANGED <<view, buildVars, notes, searchQuery, selectedTags,
                   postsVars, mavenVars, micronautVars, browserVars>>

\* mutant: the language selection is not reset
ClearFiltersKeepsLanguage ==
    /\ view = "notes"
    /\ hasActiveFilters
    /\ searchQuery' = <<>>
    /\ selectedTags' = <<>>
    /\ UNCHANGED <<view, buildVars, notes, selectedLanguage, postsVars, mavenVars,
                   micronautVars, browserVars>>

\* the Reset button is rendered while hasActiveFilters
ClearFilters ==
    /\ view = "notes"
    /\ hasActiveFilters
    /\ searchQuery' = <<>>
    /\ selectedTags' = <<>>
    /\ selectedLanguage' = <<>>
    /\ UNCHANGED <<view, buildVars, notes, postsVars, mavenVars, micronautVars,
                   browserVars>>

-----------------------------------------------------------------------------
(* SearchAndFilter: the posts page *)

PostPool == {
    [slug |-> "p1", title |-> <<"A", "b">>, description |-> <<>>,
     tags |-> << <<"a">>, <<"b">> >>],
    [slug |-> "p2", title |-> <<"b", " ", "a">>, description |-> <<"A">>,
     tags |-> << <<"A">> >>],
    [slug |-> "p3", title |-> <<"b">>, description |-> <<"b", " ">>,
     tags |-> <<>>],
    [slug |-> "p4", title |-> <<"b", "b">>, description |-> <<"a", "b">>,
     tags |-> << <<"a">>, <<"A">> >>] }

postMatchesSearch(post, q) ==
    LET normalizedSearch == toLowerCase(trim(q))
    IN  \/ q = <<>>
        \/ includes(toLowerCase(post.title), normalizedSearch)
        \/ includes(toLowerCase(post.description), normalizedSearch)
        \/ \E i \in 1..Len(post.tags) :
              includes(toLowerCase(post.tags[i]), normalizedSearch)

postMatchesTags(post, tags) ==
    \/ Len(tags) = 0
    \/ \A i \in 1..Len(tags) : arrayIncludes(post.tags, tags[i])

\* posts.filter(...)
filterPosts(ps, q, tags) ==
    SelectSeq(ps, LAMBDA post : postMatchesSearch(post, q) /\ postMatchesTags(post, tags))

filteredPosts == filterPosts(posts, postSearchQuery, postSelectedTags)

postAllTags == sortStrings(UNION {Range(posts[i].tags) : i \in 1..Len(posts)})

PostSetSearchQuery(q) ==
    /\ view = "posts"
    /\ postSearchQuery' = q
    /\ UNCHANGED <<view, buildVars, posts, postSelectedTags,
                   notesVars, mavenVars, micronautVars, browserVars>>

PostToggleTag(tag) ==
    /\ view = "posts"
    /\ arrayIncludes(postAllTags, tag)
    /\ postSelectedTags' = toggled(postSelectedTags, tag)
    /\ UNCHANGED <<view, buildVars, posts, postSearchQuery,
                   notesVars, mavenVars, micronautVars, browserVars>>

\* the Reset button is rendered while searchQuery || selectedTags.length > 0
PostClearFilters ==
    /\ view = "posts"
    /\ (postSearchQuery # <<>> \/ Len(postSelectedTags) > 0)
    /\ postSearchQuery' = <<>>
    /\ postSelectedTags' = <<>>
    /\ UNCHANGED <<view, buildVars, posts, notesVars, mavenVars, micronautVars,
                   browserVars>>

-----------------------------------------------------------------------------
(* The browser: navigator.clipboard.writeText, setTimeout, console.error *)

\* writes: the identifiers of the copyToClipboard calls awaiting their
\* clipboard write, which settle in any order.  timers: the pending clear
\* timers in the order they were scheduled, each tagged with the identifier
\* its copy confirmed; a component schedules all of them with the same delay,
\* so they fire first scheduled, first fired.

MaxPending == 2
MaxConsoleErrors == 1

RemoveAt(s, i) == SubSeq(s, 1, i - 1) \o SubSeq(s, i + 1, Len(s))

\* the model follows at most MaxPending copies at a time
CanTrackCopy == Len(writes) + Len(timers) < MaxPending

-----------------------------------------------------------------------------
(* MavenGoalsSearch *)

GoalPool == {
    [goal |-> <<"a", "b">>, phase |-> <<"A">>],
    [goal |-> <<"b">>, phase |-> <<"b", " ", "a">>] }

GoalQueries == {<<>>, <<" ">>, <<"A">>, <<"b", " ">>}

\* mutant: the query is trimmed before it is compared
goalMatchesTrimmed(g, q) ==
    \/ includes(toLowerCase(g.goal), trim(toLowerCase(q)))
    \/ includes(toLowerCase(g.phase), trim(toLowerCase(q)))

goalMatches(g, q) ==
    \/ includes(toLowerCase(g.goal), toLowerCase(q))
    \/ includes(toLowerCase(g.phase), toLowerCase(q))

filterGoals(gs, q) ==
    IF trim(q) # <<>>
    THEN SelectSeq(gs, LAMBDA g : goalMatches(g, q))
    ELSE <<>>

filtered == filterGoals(goals, query)

\* a result row, which toggles on click, is rendered per filtered goal
CanExpand(goalId) == \E i \in 1..Len(filtered) : filtered[i].goal = goalId

\* the copy button is rendered in the expanded row of a filtered goal
CanCopyGoal(goalId) == CanExpand(goalId) /\ expandedGoal = Some(goalId)

\* mutant: a new query collapses the expanded row
SetQueryCollapses(q) ==
    /\ view = "maven"
    /\ query' = q
    /\ expandedGoal' = None
    /\ UNCHANGED <<view, buildVars, goals, copiedGoal,
                   notesVars, postsVars, micronautVars, browserVars>>

SetQuery(q) ==
    /\ view = "maven"
    /\ query' = q
    /\ UNCHANGED <<view, buildVars, goals, expandedGoal, copiedGoal,
                   notesVars, postsVars, micronautVars, browserVars>>

\* mutant: a click on the expanded goal leaves it expanded
toggleExpandNeverCollapses(expanded, goalId) == Some(goalId)

\* the value toggleExpand(goalId) stores, from the stored value expanded
toggleExpand(expanded, goalId) ==
    IF expanded = Some(goalId) THEN None ELSE Some(goalId)

ToggleExpand(goalId) ==
    /\ view = "maven"
    /\ CanExpand(goalId)
    /\ expandedGoal' = toggleExpand(expandedGoal, goalId)
    /\ UNCHANGED <<view, buildVars, goals, query, copiedGoal,
                   notesVars, postsVars, micronautVars, browserVars>>

\* copyToClipboard up to its await
CopyGoal(goalId) ==
    /\ view = "maven"
    /\ CanCopyGoal(goalId)
    /\ CanTrackCopy
    /\ writes' = Append(writes, goalId)
    /\ UNCHANGED <<view, buildVars, mavenVars, notesVars, postsVars, micronautVars,
                   timers, consoleErrors, uncaught>>

\* mutant: the confirmation is set but no clear timer is scheduled
GoalWriteResolvesNoTimer(i) ==
    /\ view = "maven"
    /\ i \in 1..Len(writes)
    /\ copiedGoal' = Some(writes[i])
    /\ writes' = RemoveAt(writes, i)
    /\ UNCHANGED <<view, buildVars, goals, query, expandedGoal,
                   notesVars, postsVars, micronautVars, timers,
                   consoleErrors, uncaught>>

\* the write resolved: the rest of the try block
GoalWriteResolves(i) ==
    /\ view = "maven"
    /\ i \in 1..Len(writes)
    /\ copiedGoal' = Some(writes[i])
    /\ timers' = Append(timers, writes[i])
    /\ writes' = RemoveAt(writes, i)
    /\ UNCHANGED <<view, buildVars, goals, query, expandedGoal,
                   notesVars, postsVars, micronautVars, consoleErrors, uncaught>>

\* mutant: no catch block, the rejection escapes copyToClipboard
GoalWriteRejectsUncaught(i) ==
    /\ view = "maven"
    /\ i \in 1..Len(writes)
    /\ consoleErrors < MaxConsoleErrors
    /\ consoleErrors' = consoleErrors + 1
    /\ uncaught' = TRUE
    /\ writes' = RemoveAt(writes, i)
    /\ UNCHANGED <<view, buildVars, mavenVars, notesVars, postsVars, micronautVars, timers>>

\* the write rejected: the catch block
GoalWriteRejects(i) ==
    /\ view = "maven"
    /\ i \in 1..Len(writes)
    /\ consoleErrors < MaxConsoleErrors
    /\ consoleErrors' = consoleErrors + 1
    /\ writes' = RemoveAt(writes, i)
    /\ UNCHANGED <<view, buildVars, mavenVars, notesVars, postsVars, micronautVars,
                   timers, uncaught>>

\* mutant: the callback stores the copied goal again
GoalTimerFiresSetsAgain ==
    /\ view = "maven"
    /\ timers # <<>>
    /\ copiedGoal' = Some(Head(timers))
    /\ timers' = Tail(timers)
    /\ UNCHANGED <<view, buildVars, goals, query, expandedGoal,
                   notesVars, postsVars, micronautVars, writes,
                   consoleErrors, uncaught>>

\* the setTimeout callback
GoalTimerFires ==
    /\ view = "maven"
    /\ timers # <<>>
    /\ copiedGoal' = None
    /\ timers' = Tail(timers)
    /\ UNCHANGED <<view, buildVars, goals, query, expandedGoal,
                   notesVars, postsVars, micronautVars, writes,
                   consoleErrors, uncaught>>

-----------------------------------------------------------------------------
(* MicronautFeaturesTable *)

SortFields == {"feature", "type", "description", "details"}

FeaturePool == {
    [feature |-> <<"a", "b">>, type |-> <<"A">>,
     description |-> <<"b", " ", "a">>, details |-> <<>>],
    [feature |-> <<"A">>, type |-> <<"b">>,
     description |-> <<"a">>, details |-> <<"a", " ">>],
    [feature |-> <<"b">>, type |-> <<"A">>,
     description |-> <<"A">>, details |-> <<"b">>],
    [feature |-> <<"a">>, type |-> <<"a">>,
     description |-> <<"b", "b">>, details |-> <<"A">>] }

TypePool == {f.type : f \in FeaturePool}

allTypes == sortStrings({features[i].type : i \in 1..Len(features)})

featureMatches(f, q) ==
    \/ includes(toLowerCase(f.feature), q)
    \/ includes(toLowerCase(f.type), q)
    \/ includes(toLowerCase(f.description), q)
    \/ includes(toLowerCase(f.details), q)

\* the comparator handed to sort: negative, zero or positive
compareFeatures(a, b, field, direction) ==
    LET aVal == toLowerCase(a[field])
        bVal == toLowerCase(b[field])
    IN  IF direction = "asc"
        THEN IF StringLess(aVal, bVal) THEN -1
             ELSE IF StringLess(bVal, aVal) THEN 1 ELSE 0
        ELSE IF StringLess(bVal, aVal) THEN -1
             ELSE IF StringLess(aVal, bVal) THEN 1 ELSE 0

RECURSIVE insertSortedUnstable(_, _, _, _)
\* mutant: x is placed before the elements it compares equal to
insertSortedUnstable(s, x, field, direction) ==
    IF s = <<>> THEN <<x>>
    ELSE IF compareFeatures(Head(s), x, field, direction) < 0
         THEN <<Head(s)>> \o insertSortedUnstable(Tail(s), x, field, direction)
         ELSE <<x>> \o s

\* x placed after every element of the sorted s that does not compare
\* greater than it
RECURSIVE insertSorted(_, _, _, _)
insertSorted(s, x, field, direction) ==
    IF s = <<>> THEN <<x>>
    ELSE IF compareFeatures(Head(s), x, field, direction) <= 0
         THEN <<Head(s)>> \o insertSorted(Tail(s), x, field, direction)
         ELSE <<x>> \o s

\* Array.prototype.sort, which is stable
RECURSIVE sortFeatures(_, _, _)
sortFeatures(s, field, direction) ==
    IF s = <<>> THEN <<>>
    ELSE insertSorted(sortFeatures(SubSeq(s, 1, Len(s) - 1), field, direction),
                      s[Len(s)], field, direction)

filterAndSort(fs, q, type, field, direction) ==
    LET byText == IF trim(q) # <<>>
                  THEN SelectSeq(fs, LAMBDA f : featureMatches(f, toLowerCase(q)))
                  ELSE fs
        byType == IF type # <<>>
                  THEN SelectSeq(byText, LAMBDA f : f.type = type)
                  ELSE byText
    IN  sortFeatures(byType, field, direction)

filteredAndSorted ==
    filterAndSort(features, featureSearchQuery, typeFilter, sortField,
                  sortDirection)

\* the table, with its sortable headers and one copy button per row, is
\* rendered while there is a row to show
CanSort == Len(filteredAndSorted) > 0

CanCopyFeature(text) ==
    \E i \in 1..Len(filteredAndSorted) : filteredAndSorted[i].feature = text

\* the Clear button is rendered while searchQuery || typeFilter
CanClearFeatureFilters == featureSearchQuery # <<>> \/ typeFilter # <<>>

SetFeatureSearchQuery(q) ==
    /\ view = "micronaut"
    /\ featureSearchQuery' = q
    /\ UNCHANGED <<view, buildVars, features, typeFilter, sortField, sortDirection,
                   copiedFeature, notesVars, postsVars, mavenVars, browserVars>>

\* the select offers "All types" ("") and every entry of allTypes
SetTypeFilter(type) ==
    /\ view = "micronaut"
    /\ (type = <<>> \/ arrayIncludes(allTypes, type))
    /\ typeFilter' = type
    /\ UNCHANGED <<view, buildVars, features, featureSearchQuery, sortField, sortDirection,
                   copiedFeature, notesVars, postsVars, mavenVars, browserVars>>

\* mutant: a change of field keeps the direction
handleSortKeepsDirection(field, current) ==
    IF current.sortField = field
    THEN [current EXCEPT !.sortDirection =
             IF current.sortDirection = "asc" THEN "desc" ELSE "asc"]
    ELSE [current EXCEPT !.sortField = field]

\* mutant: a click on the active field never returns to ascending
handleSortStaysDescending(field, current) ==
    IF current.sortField = field
    THEN [current EXCEPT !.sortDirection = "desc"]
    ELSE [sortField |-> field, sortDirection |-> "asc"]

\* the sort state handleSort(field) leaves, from the sort state current
handleSort(field, current) ==
    IF current.sortField = field
    THEN [current EXCEPT !.sortDirection =
             IF current.sortDirection = "asc" THEN "desc" ELSE "asc"]
    ELSE [sortField |-> field, sortDirection |-> "asc"]

HandleSort(field) ==
    /\ view = "micronaut"
    /\ CanSort
    /\ LET next == handleSort(field, [sortField |-> sortField,
                                      sortDirection |-> sortDirection])
       IN  /\ sortField' = next.sortField
           /\ sortDirection' = next.sortDirection
    /\ UNCHANGED <<view, buildVars, features, featureSearchQuery, typeFilter,
                   copiedFeature, notesVars, postsVars, mavenVars, browserVars>>

FeatureClearFilters ==
    /\ view = "micronaut"
    /\ CanClearFeatureFilters
    /\ featureSearchQuery' = <<>>
    /\ typeFilter' = <<>>
    /\ UNCHANGED <<view, buildVars, features, sortField, sortDirection,
                   copiedFeature, notesVars, postsVars, mavenVars, browserVars>>

\* copyToClipboard up to its await
CopyFeature(text) ==
    /\ view = "micronaut"
    /\ CanCopyFeature(text)
    /\ CanTrackCopy
    /\ writes' = Append(writes, text)
    /\ UNCHANGED <<view, buildVars, micronautVars, notesVars, postsVars, mavenVars,
                   timers, consoleErrors, uncaught>>

\* mutant: the confirmation is set but no clear timer is scheduled
FeatureWriteResolvesNoTimer(i) ==
    /\ view = "micronaut"
    /\ i \in 1..Len(writes)
    /\ copiedFeature' = Some(writes[i])
    /\ writes' = RemoveAt(writes, i)
    /\ UNCHANGED <<view, buildVars, features, featureSearchQuery, typeFilter,
                   sortField, sortDirection, notesVars, postsVars, mavenVars,
                   timers, consoleErrors, uncaught>>

\* the write resolved: the rest of the try block
FeatureWriteResolves(i) ==
    /\ view = "micronaut"
    /\ i \in 1..Len(writes)
    /\ copiedFeature' = Some(writes[i])
    /\ timers' = Append(timers, writes[i])
    /\ writes' = RemoveAt(writes, i)
    /\ UNCHANGED <<view, buildVars, features, featureSearchQuery, typeFilter, sortField,
                   sortDirection, notesVars, postsVars, mavenVars,
                   consoleErrors, uncaught>>

\* the write rejected: the catch block
FeatureWriteRejects(i) ==
    /\ view = "micronaut"
    /\ i \in 1..Len(writes)
    /\ consoleErrors < MaxConsoleErrors
    /\ consoleErrors' = consoleErrors + 1
    /\ writes' = RemoveAt(writes, i)
    /\ UNCHANGED <<view, buildVars, micronautVars, notesVars, postsVars, mavenVars,
                   timers, uncaught>>

\* the setTimeout callback
FeatureTimerFires ==
    /\ view = "micronaut"
    /\ timers # <<>>
    /\ copiedFeature' = None
    /\ timers' = Tail(timers)
    /\ UNCHANGED <<view, buildVars, features, featureSearchQuery, typeFilter, sortField,
                   sortDirection, notesVars, postsVars, mavenVars, writes,
                   consoleErrors, uncaught>>

-----------------------------------------------------------------------------
(* Initial states: the useState initial values of each component *)

NotesUnmounted ==
    notes = <<>> /\ searchQuery = <<>> /\ selectedTags = <<>> /\ selectedLanguage = <<>>

PostsUnmounted ==
    posts = <<>> /\ postSearchQuery = <<>> /\ postSelectedTags = <<>>

MavenUnmounted ==
    goals = <<>> /\ query = <<>> /\ expandedGoal = None /\ copiedGoal = None

MicronautUnmounted ==
    /\ features = <<>> /\ featureSearchQuery = <<>> /\ typeFilter = <<>>
    /\ sortField = "feature" /\ sortDirection = "asc" /\ copiedFeature = None

BrowserIdle ==
    writes = <<>> /\ timers = <<>> /\ consoleErrors = 0 /\ uncaught = FALSE

\* nothing of the build or of the feed endpoint is running
BuildIdle ==
    /\ contentFiles = <<>> /\ contentDates = None /\ sitemap = {}
    /\ entries = <<>> /\ feed = None

InitNotes ==
    /\ view = "notes"
    /\ notes \in InjectiveSeqs(NotePool, MaxNotes)
    /\ searchQuery = <<>> /\ selectedTags = <<>> /\ selectedLanguage = <<>>
    /\ PostsUnmounted /\ MavenUnmounted /\ MicronautUnmounted /\ BrowserIdle /\ BuildIdle

InitPosts ==
    /\ view = "posts"
    /\ posts \in InjectiveSeqs(PostPool, MaxNotes)
    /\ postSearchQuery = <<>> /\ postSelectedTags = <<>>
    /\ NotesUnmounted /\ MavenUnmounted /\ MicronautUnmounted /\ BrowserIdle /\ BuildIdle

InitFilter == InitNotes \/ InitPosts

NextFilter ==
    \/ \E q \in Queries : SetSearchQuery(q)
    \/ \E tag \in TagPool : ToggleTag(tag)
    \/ \E lang \in LanguagePool : SelectLanguage(lang)
    \/ ClearFilters
    \/ \E q \in Queries : PostSetSearchQuery(q)
    \/ \E tag \in TagPool : PostToggleTag(tag)
    \/ PostClearFilters

SpecFilter == InitFilter /\ [][NextFilter]_vars

\* The two tables with their copy buttons, on small collections
CopyFeaturePool ==
    {f \in FeaturePool : f.feature \in {<<"a", "b">>, <<"A">>}}

FeatureQueries == {<<>>, <<"a">>, <<"b", " ">>}

InitMaven ==
    /\ view = "maven"
    /\ goals \in InjectiveSeqs(GoalPool, Cardinality(GoalPool))
    /\ query = <<>> /\ expandedGoal = None /\ copiedGoal = None
    /\ NotesUnmounted /\ PostsUnmounted /\ MicronautUnmounted /\ BrowserIdle /\ BuildIdle

InitMicronaut ==
    /\ view = "micronaut"
    /\ features \in InjectiveSeqs(CopyFeaturePool, Cardinality(CopyFeaturePool))
    /\ featureSearchQuery = <<>> /\ typeFilter = <<>>
    /\ sortField = "feature" /\ sortDirection = "asc" /\ copiedFeature = None
    /\ NotesUnmounted /\ PostsUnmounted /\ MavenUnmounted /\ BrowserIdle /\ BuildIdle

InitTables == InitMaven \/ InitMicronaut

NextTables ==
    \/ \E q \in GoalQueries : SetQuery(q)
    \/ \E g \in GoalPool : ToggleExpand(g.goal)
    \/ \E g \in GoalPool : CopyGoal(g.goal)
    \/ \E i \in 1..MaxPending : GoalWriteResolves(i)
    \/ \E i \in 1..MaxPending : GoalWriteRejects(i)
    \/ GoalTimerFires
    \/ \E q \in FeatureQueries : SetFeatureSearchQuery(q)
    \/ \E type \in TypePool \cup {<<>>} : SetTypeFilter(type)
    \/ \E field \in SortFields : HandleSort(field)
    \/ FeatureClearFilters
    \/ \E f \in FeaturePool : CopyFeature(f.feature)
    \/ \E i \in 1..MaxPending : FeatureWriteResolves(i)
    \/ \E i \in 1..MaxPending : FeatureWriteRejects(i)
    \/ FeatureTimerFires

SpecTables == InitTables /\ [][NextTables]_vars

\* A timer that is due fires: the page's event loop runs its callback
SpecTablesFair ==
    SpecTables /\ WF_vars(GoalTimerFires) /\ WF_vars(FeatureTimerFires)

\* The features table on wider collections and queries, its filter and sort
\* controls only
MaxFeatures == 3

InitFeatures ==
    /\ view = "micronaut"
    /\ features \in InjectiveSeqs(FeaturePool, MaxFeatures)
    /\ featureSearchQuery = <<>> /\ typeFilter = <<>>
    /\ sortField = "feature" /\ sortDirection = "asc" /\ copiedFeature = None
    /\ NotesUnmounted /\ PostsUnmounted /\ MavenUnmounted /\ BrowserIdle /\ BuildIdle

NextFeatures ==
    \/ \E q \in Queries : SetFeatureSearchQuery(q)
    \/ \E type \in TypePool \cup {<<>>} : SetTypeFilter(type)
    \/ \E field \in SortFields : HandleSort(field)
    \/ FeatureClearFilters

SpecFeatures == InitFeatures /\ [][NextFeatures]_vars

\* The notes filter over the two records of the worked example: "Lombok
\* Tips" tagged java, lombok and "DynamoDB Exists" tagged dynamodb, java
LombokTips ==
    [slug |-> "lombok-tips",
     title |-> <<"L", "o", "m", "b", "o", "k", " ", "T", "i", "p", "s">>,
     description |-> None,
     tags |-> << <<"j", "a", "v", "a">>, <<"l", "o", "m", "b", "o", "k">> >>,
     language |-> None]

DynamoDBExists ==
    [slug |-> "dynamodb-exists",
     title |-> <<"D", "y", "n", "a", "m", "o", "D", "B", " ",
                 "E", "x", "i", "s", "t", "s">>,
     description |-> None,
     tags |-> << <<"d", "y", "n", "a", "m", "o", "d", "b">>,
                 <<"j", "a", "v", "a">> >>,
     language |-> None]

ExampleTags == Range(LombokTips.tags) \cup Range(DynamoDBExists.tags)

ExampleQueries == {
    <<>>,
    <<"j", "a", "v", "a">>,
    <<"J", "a", "v", "a">>,
    <<" ", "j", "a", "v", "a", " ">>,
    <<"l", "o", "m", "b", "o", "k">>,
    <<"t", "i", "p", "s">>,
    <<"d", "b">>,
    <<"j", "a", "v", "a", " ", "l">> }

InitExample ==
    /\ view = "notes"
    /\ notes = <<LombokTips, DynamoDBExists>>
    /\ searchQuery = <<>> /\ selectedTags = <<>> /\ selectedLanguage = <<>>
    /\ PostsUnmounted /\ MavenUnmounted /\ MicronautUnmounted /\ BrowserIdle
    /\ BuildIdle

\* neither record has a language, so no language button is rendered
NextExample ==
    \/ \E q \in ExampleQueries : SetSearchQuery(q)
    \/ \E tag \in ExampleTags : ToggleTag(tag)
    \/ ClearFilters

SpecExample == InitExample /\ [][NextExample]_vars

-----------------------------------------------------------------------------
(* astro.config.mjs: getContentDates and the sitemap's serialize *)

\* A front-matter block is the sequence of its lines, a line "key: value"
\* or "key:" with nothing after the colon.  The two field patterns skip
\* white space (\s*, line ends included) and capture a run of non-space
\* characters (\S+), so they read the block as its white-space separated
\* words: FrontMatterWords.
MaxFrontMatterLines == 2

ContentCollections == <<"posts", "notes">>

DateLiterals == {"2025-10-17", "2026-02-21"}

FrontMatterLinePool == {
    [key |-> "title", value |-> Some("x")],
    [key |-> "pubDate", value |-> Some("2025-10-17")],
    [key |-> "pubDate", value |-> None],
    [key |-> "updatedDate", value |-> Some("2026-02-21")],
    [key |-> "updatedDate", value |-> None] }

\* the blocks of at most n lines, no key twice
RECURSIVE FrontMattersUpTo(_)
FrontMattersUpTo(n) ==
    IF n = 0 THEN {<<>>}
    ELSE LET shorter == FrontMattersUpTo(n - 1)
         IN  shorter \cup
             {Append(p[1], p[2]) :
                 p \in {pp \in shorter \X FrontMatterLinePool :
                           \A i \in 1..Len(pp[1]) : pp[1][i].key # pp[2].key}}

\* a file of a content directory: its name, and its front-matter block when
\* the file starts with one
ContentFilePool ==
    {[name |-> <<"a", ext>>, frontmatter |-> fm] :
        ext \in {"md", "mdx"},
        fm \in {None} \cup {Some(b) : b \in FrontMattersUpTo(MaxFrontMatterLines)}}

\* a content directory: missing, empty, or holding one file
ContentDirectories ==
    {None, Some(<<>>)} \cup {Some(<<f>>) : f \in ContentFilePool}

RECURSIVE FrontMatterWords(_)
FrontMatterWords(block) ==
    IF block = <<>> THEN <<>>
    ELSE <<Head(block).key \o ":">> \o Head(block).value
            \o FrontMatterWords(Tail(block))

\* text.match(/field:\s*(\S+)/): the word after the first "field:" that has
\* a word after it
matchField(words, field) ==
    LET hits == {i \in 1..(Len(words) - 1) : words[i] = field \o ":"}
    IN  IF hits = {} THEN None
        ELSE Some(words[(CHOOSE i \in hits : \A j \in hits : i <= j) + 1])

\* file.replace(/\.(md|mdx)$/, "")
slugOf(name) == name[1]

\* `/${collection}/${slug}/`
pathnameOf(collection, slug) == <<collection, slug>>

\* new Date(text)
newDate(text) == IF text \in DateLiterals THEN text ELSE "Invalid Date"

\* the date string of one file, None when it gets no entry
dateOf(file) ==
    IF file.frontmatter = None THEN None
    ELSE LET words == FrontMatterWords(file.frontmatter[1])
             updatedMatch == matchField(words, "updatedDate")
             pubMatch == matchField(words, "pubDate")
         IN  IF updatedMatch # None THEN updatedMatch ELSE pubMatch

mapSet(map, key, value) ==
    [k \in DOMAIN map \cup {key} |-> IF k = key THEN value ELSE map[k]]

\* the inner loop, over the files of one directory
RECURSIVE setDatesOf(_, _, _)
setDatesOf(map, collection, files) ==
    IF files = <<>> THEN map
    ELSE LET date == dateOf(Head(files))
             next == IF date # None
                     THEN mapSet(map,
                                 pathnameOf(collection, slugOf(Head(files).name)),
                                 newDate(date[1]))
                     ELSE map
         IN  setDatesOf(next, collection, Tail(files))

\* the outer loop, over the collections whose directory exists
RECURSIVE getContentDatesFrom(_, _, _)
getContentDatesFrom(map, dirs, k) ==
    IF k > Len(ContentCollections) THEN map
    ELSE LET collection == ContentCollections[k]
             next == IF dirs[collection] = None THEN map
                     ELSE setDatesOf(map, collection, dirs[collection][1])
         IN  getContentDatesFrom(next, dirs, k + 1)

getContentDates(dirs) == getContentDatesFrom(<<>>, dirs, 1)

\* the pages handed to serialize
SitemapPages == {<<"posts", "a">>, <<"notes", "a">>, <<"about">>}

\* const contentDates = getContentDates(), when the configuration is loaded
GetContentDates ==
    /\ view = "build"
    /\ contentDates = None
    /\ contentDates' = Some(getContentDates(contentFiles))
    /\ UNCHANGED <<view, contentFiles, sitemap, entries, feed, notesVars,
                   postsVars, mavenVars, micronautVars, browserVars>>

\* serialize(item): lastmod is set when the map has the item's pathname
Serialize(pathname) ==
    /\ view = "build"
    /\ contentDates # None
    /\ \A item \in sitemap : item.url # pathname
    /\ sitemap' = sitemap \cup
          {[url |-> pathname,
            lastmod |-> IF pathname \in DOMAIN contentDates[1]
                        THEN Some(contentDates[1][pathname])
                        ELSE None]}
    /\ UNCHANGED <<view, contentFiles, contentDates, entries, feed, notesVars,
                   postsVars, mavenVars, micronautVars, browserVars>>

InitBuild ==
    /\ view = "build"
    /\ contentFiles \in [{"posts", "notes"} -> ContentDirectories]
    /\ contentDates = None /\ sitemap = {}
    /\ entries = <<>> /\ feed = None
    /\ NotesUnmounted /\ PostsUnmounted /\ MavenUnmounted /\ MicronautUnmounted
    /\ BrowserIdle

NextBuild ==
    \/ GetContentDates
    \/ \E pathname \in SitemapPages : Serialize(pathname)

SpecBuild == InitBuild /\ [][NextBuild]_vars

-----------------------------------------------------------------------------
(* rss.xml.ts: the feed endpoint *)

MaxFeedEntries == 2

\* pubDate.valueOf(), as a day count
FeedDates == {1, 2, 3}

PostEntryPool ==
    {[slug |-> sl, title |-> "T " \o sl, description |-> Some("D " \o sl),
      pubDate |-> d, draft |-> dr] :
        sl \in {"p1", "p2"}, d \in FeedDates, dr \in BOOLEAN}

NoteEntryPool ==
    {[slug |-> "n1", title |-> "T n1", description |-> desc,
      pubDate |-> d, draft |-> dr] :
        desc \in {None, Some("D n1")}, d \in FeedDates, dr \in BOOLEAN}

\* the collections with at most n entries, no slug twice
RECURSIVE CollectionsUpTo(_, _)
CollectionsUpTo(pool, n) ==
    IF n = 0 THEN {<<>>}
    ELSE LET shorter == CollectionsUpTo(pool, n - 1)
         IN  shorter \cup
             {Append(p[1], p[2]) :
                 p \in {pp \in shorter \X pool :
                           \A i \in 1..Len(pp[1]) : pp[1][i].slug # pp[2].slug}}

notDraft(entry) == ~entry.draft

postItem(post) ==
    [title |-> post.title,
     description |-> post.description[1],
     pubDate |-> post.pubDate,
     link |-> <<"posts", post.slug>>]

\* the text after the title in a description made from it (its dash is
\* U+2014 in the source)
FallbackSuffix == " -- Hogwai Tech Blog."

\* note.data.description ?? `${note.data.title}${FallbackSuffix}`
noteDescription(note) ==
    IF note.description # None THEN note.description[1]
    ELSE note.title \o FallbackSuffix

noteItem(note) ==
    [title |-> note.title,
     description |-> noteDescription(note),
     pubDate |-> note.pubDate,
     link |-> <<"notes", note.slug>>]

\* mutant: the comparator is a - b
compareItemsAscending(a, b) == a.pubDate - b.pubDate

\* the comparator handed to sort
compareItems(a, b) == b.pubDate - a.pubDate

RECURSIVE insertItem(_, _)
insertItem(s, x) ==
    IF s = <<>> THEN <<x>>
    ELSE IF compareItems(Head(s), x) <= 0
         THEN <<Head(s)>> \o insertItem(Tail(s), x)
         ELSE <<x>> \o s

\* Array.prototype.sort, which is stable
RECURSIVE sortItems(_)
sortItems(s) ==
    IF s = <<>> THEN <<>>
    ELSE insertItem(sortItems(SubSeq(s, 1, Len(s) - 1)), s[Len(s)])

allItems(ps, ns) ==
    LET livePosts == SelectSeq(ps, notDraft)
        liveNotes == SelectSeq(ns, notDraft)
        postItems == [i \in 1..Len(livePosts) |-> postItem(livePosts[i])]
        noteItems == [i \in 1..Len(liveNotes) |-> noteItem(liveNotes[i])]
    IN  sortItems(postItems \o noteItems)

\* GET: the items handed to rss()
GET ==
    /\ view = "feed"
    /\ feed = None
    /\ feed' = Some(allItems(entries.posts, entries.notes))
    /\ UNCHANGED <<view, contentFiles, contentDates, sitemap, entries,
                   notesVars, postsVars, mavenVars, micronautVars, browserVars>>

InitFeed ==
    /\ view = "feed"
    /\ entries \in [posts : CollectionsUpTo(PostEntryPool, MaxFeedEntries),
                    notes : CollectionsUpTo(NoteEntryPool, MaxFeedEntries)]
    /\ feed = None
    /\ contentFiles = <<>> /\ contentDates = None /\ sitemap = {}
    /\ NotesUnmounted /\ PostsUnmounted /\ MavenUnmounted /\ MicronautUnmounted
    /\ BrowserIdle

NextFeed == GET

SpecFeed == InitFeed /\ [][NextFeed]_vars

-----------------------------------------------------------------------------
(* Properties of the notes and posts filters *)

\* The predicates as the specification words them
TextMatch(title, description, tags, q) ==
    LET n == trim(toLowerCase(q))
    IN  \/ n = <<>>
        \/ includes(toLowerCase(title), n)
        \/ (description # None /\ includes(toLowerCase(description[1]), n))
        \/ \E t \in Range(tags) : includes(toLowerCase(t), n)

TagMatch(tags, selection) == Range(selection) \subseteq Range(tags)

FacetMatch(language, selection) ==
    selection = <<>> \/ language = Some(selection)

\* r is the subsequence of s at the positions keep, in the order of s
IsSubsequenceAt(r, s, keep) ==
    /\ Len(r) = Cardinality(keep)
    /\ \A k \in 1..Len(r) :
          \E i \in keep :
              /\ Cardinality({j \in keep : j < i}) = k - 1
              /\ r[k] = s[i]

\* C1: the filtered notes are exactly the notes for which the text, the tag
\* and the language predicate all hold, each once, in their original order.
C1_FilteredNotesIsMatchingSubsequence ==
    view = "notes" =>
        IsSubsequenceAt(filteredNotes, notes,
            {i \in 1..Len(notes) :
                /\ TextMatch(notes[i].title, notes[i].description,
                             notes[i].tags, searchQuery)
                /\ TagMatch(notes[i].tags, selectedTags)
                /\ FacetMatch(notes[i].language, selectedLanguage)})

C1_Witness ==
    /\ view = "notes"
    /\ searchQuery # <<>> /\ selectedTags # <<>> /\ selectedLanguage # <<>>
    /\ Len(notes) = 2
    /\ Len(filteredNotes) = 1
    /\ \E i \in 1..2 : matchesLanguage(notes[i], selectedLanguage)
                        /\ ~matchesTags(notes[i], selectedTags)

\* C2: with the empty filter state the notes filter and the posts filter
\* return the collection itself, same elements in the same order.
C2_EmptyFilterIsIdentity ==
    /\ (view = "notes" /\ searchQuery = <<>> /\ selectedTags = <<>>
            /\ selectedLanguage = <<>>) => filteredNotes = notes
    /\ (view = "posts" /\ postSearchQuery = <<>> /\ postSelectedTags = <<>>)
            => filteredPosts = posts

C2_Witness ==
    /\ view = "notes"
    /\ searchQuery = <<>> /\ selectedTags = <<>> /\ selectedLanguage = <<>>
    /\ Len(notes) = 2
    /\ notes[1].language = None /\ notes[2].description = None
    /\ filteredNotes = notes

OnlyWhiteSpace(q) == q # <<>> /\ \A i \in 1..Len(q) : q[i] = " "

\* C6: a query made only of whitespace selects the same records as the
\* empty query, whatever the collection and the tag / language selection.
C6_WhitespaceQueryIsEmptyQuery ==
    /\ (view = "notes" /\ OnlyWhiteSpace(searchQuery)) =>
            filteredNotes = filterNotes(notes, <<>>, selectedTags, selectedLanguage)
    /\ (view = "posts" /\ OnlyWhiteSpace(postSearchQuery)) =>
            filteredPosts = filterPosts(posts, <<>>, postSelectedTags)

C6_Witness ==
    /\ view = "notes"
    /\ OnlyWhiteSpace(searchQuery) /\ Len(searchQuery) = MaxQueryLen
    /\ selectedTags # <<>>
    /\ Len(notes) = 2 /\ Len(filteredNotes) = 1
    /\ \A c \in Range(filteredNotes[1].title) : c # " "

\* p without its leading and trailing whitespace: from its first to its last
\* character that is not a space
OuterCore(p) ==
    LET solid == {i \in 1..Len(p) : p[i] # " "}
    IN  IF solid = {} THEN <<>>
        ELSE SubSeq(p, CHOOSE i \in solid : \A j \in solid : i <= j,
                       CHOOSE i \in solid : \A j \in solid : i >= j)

\* p and q differ only in letter case and in leading / trailing whitespace
SameUpToCaseAndOuterSpace(p, q) ==
    toLowerCase(OuterCore(p)) = toLowerCase(OuterCore(q))

\* C7: for a non-empty query a note matches the text predicate iff the
\* trimmed, lowercased query occurs in the lowercased title, description
\* (absent: the empty string) or one of the lowercased tags; so queries that
\* differ only in case or outer whitespace select the same notes.
C7_TextMatch ==
    view = "notes" =>
        /\ \A i \in 1..Len(notes) :
              searchQuery # <<>> =>
                 (matchesSearch(notes[i], searchQuery)
                    <=> TextMatch(notes[i].title, notes[i].description,
                                  notes[i].tags, searchQuery))
        /\ \A q \in Queries :
              SameUpToCaseAndOuterSpace(q, searchQuery) =>
                 filterNotes(notes, q, selectedTags, selectedLanguage)
                    = filteredNotes

C7_Witness ==
    /\ view = "notes"
    /\ searchQuery = <<"A", " ">>
    /\ Len(notes) = 2 /\ Len(filteredNotes) = 1
    /\ filteredNotes[1].description = None

\* C9: with no tag selected every record passes the tag predicate; otherwise
\* a record passes iff every selected tag is one of its tags, compared by
\* exact (case-sensitive) equality.
C9_TagMatchIsAnd ==
    /\ view = "notes" =>
          /\ \A i \in 1..Len(notes) :
                matchesTags(notes[i], selectedTags)
                    <=> TagMatch(notes[i].tags, selectedTags)
          /\ \A k \in 1..Len(filteredNotes) :
                \A t \in Range(selectedTags) :
                    \E j \in 1..Len(filteredNotes[k].tags) :
                        filteredNotes[k].tags[j] = t
    /\ view = "posts" =>
          \A i \in 1..Len(posts) :
              postMatchesTags(posts[i], postSelectedTags)
                  <=> TagMatch(posts[i].tags, postSelectedTags)

C9_Witness ==
    /\ view = "notes"
    /\ Len(selectedTags) = 2
    /\ \E i \in 1..Len(notes) :
          /\ \E t \in Range(selectedTags) : t \in Range(notes[i].tags)
          /\ \E t \in Range(selectedTags) :
                /\ t \notin Range(notes[i].tags)
                /\ \E u \in Range(notes[i].tags) : toLowerCase(u) = toLowerCase(t)
          /\ notes[i] \notin Range(filteredNotes)
    /\ filteredNotes # <<>>

\* C10: adding a tag to the selection never adds a record to the result.
C10_TagFilterMonotonic ==
    /\ view = "notes" =>
          \A t \in TagPool :
              Range(filterNotes(notes, searchQuery, Append(selectedTags, t),
                                selectedLanguage))
                  \subseteq Range(filteredNotes)
    /\ view = "posts" =>
          \A t \in TagPool :
              Range(filterPosts(posts, postSearchQuery,
                                Append(postSelectedTags, t)))
                  \subseteq Range(filteredPosts)

C10_Witness ==
    /\ view = "notes"
    /\ selectedTags # <<>> /\ searchQuery # <<>>
    /\ Len(filteredNotes) = 2
    /\ \E t \in TagPool :
          Len(filterNotes(notes, searchQuery, Append(selectedTags, t),
                          selectedLanguage)) = 1

\* C11: filtering is idempotent: the filter applied, with the same filter
\* state, to its own result returns that result.
C11_FilterIdempotent ==
    /\ view = "notes" =>
          filterNotes(filteredNotes, searchQuery, selectedTags, selectedLanguage)
              = filteredNotes
    /\ view = "posts" =>
          filterPosts(filteredPosts, postSearchQuery, postSelectedTags)
              = filteredPosts

C11_Witness ==
    /\ view = "notes"
    /\ Len(notes) = 2 /\ Len(filteredNotes) = 1
    /\ searchQuery # <<>> /\ selectedTags # <<>>
    /\ selectedLanguage = <<>>

\* C12: with no language selected every note passes the language predicate;
\* with one selected a note passes iff its language is exactly that string,
\* so a note without a language never passes then.
C12_FacetMatchIsExact ==
    view = "notes" =>
        /\ \A i \in 1..Len(notes) :
              matchesLanguage(notes[i], selectedLanguage)
                  <=> FacetMatch(notes[i].language, selectedLanguage)
        /\ selectedLanguage # <<>> =>
              \A k \in 1..Len(filteredNotes) :
                  /\ filteredNotes[k].language # None
                  /\ filteredNotes[k].language[1] = selectedLanguage

C12_Witness ==
    /\ view = "notes"
    /\ selectedLanguage = <<"a">>
    /\ searchQuery = <<>> /\ selectedTags = <<>>
    /\ \E i \in 1..Len(notes) :
          notes[i].language = None /\ notes[i] \notin Range(filteredNotes)
    /\ \E i \in 1..Len(notes) :
          notes[i].language = Some(<<"a">>) /\ notes[i] \in Range(filteredNotes)

\* C13: a reset empties the query, the tag selection and the language
\* selection in one step, and the filtered list is then the full collection.
C13_ResetClearsAll ==
    [][ClearFilters =>
          /\ searchQuery' = <<>>
          /\ selectedTags' = <<>>
          /\ selectedLanguage' = <<>>
          /\ notes' = notes
          /\ filteredNotes' = notes]_vars

\* a state a reset acts on: all three criteria set, some note filtered out
C13_Witness ==
    /\ view = "notes"
    /\ hasActiveFilters
    /\ searchQuery # <<>> /\ selectedTags # <<>> /\ selectedLanguage # <<>>
    /\ Len(filteredNotes) < Len(notes)
    /\ ENABLED ClearFilters

\* The notes filter, the posts filter and the features table, each from its
\* own mount: the three components that build a facet index
InitIndexes == InitFilter \/ InitFeatures

NextIndexes == NextFilter \/ NextFeatures

SpecIndexes == InitIndexes /\ [][NextIndexes]_vars

\* index lists each of its values once, in ascending code unit order, and
\* lists nothing outside values
IsIndexOf(index, values) ==
    /\ \A i \in 1..Len(index) : \A j \in 1..Len(index) :
          i # j => index[i] # index[j]
    /\ \A i \in 1..(Len(index) - 1) : StringLess(index[i], index[i + 1])
    /\ Range(index) \subseteq values

TagsOn(records) ==
    {t \in TagPool : \E i \in 1..Len(records) : arrayIncludes(records[i].tags, t)}

\* C14: the tag index and the language/type index hold no duplicate, are in
\* ascending order and hold only values found on a record; an empty
\* collection gives empty indexes.
C14_IndexesSortedDistinctFromRecords ==
    /\ view = "notes" =>
          /\ IsIndexOf(allTags, TagsOn(notes))
          /\ IsIndexOf(allLanguages,
                       {l \in LanguagePool :
                           \E i \in 1..Len(notes) : notes[i].language = Some(l)})
          /\ notes = <<>> => (allTags = <<>> /\ allLanguages = <<>>)
    /\ view = "posts" =>
          /\ IsIndexOf(postAllTags, TagsOn(posts))
          /\ posts = <<>> => postAllTags = <<>>
    /\ view = "micronaut" =>
          /\ IsIndexOf(allTypes,
                       {t \in TypePool :
                           \E i \in 1..Len(features) : features[i].type = t})
          /\ features = <<>> => allTypes = <<>>

\* a tag carried by both notes, and an index whose order is not the order
\* in which the tags were met
C14_Witness ==
    /\ view = "notes"
    /\ Len(notes) = 2
    /\ Range(notes[1].tags) \cap Range(notes[2].tags) # {}
    /\ Len(allTags) = 3
    /\ allTags[1] # notes[1].tags[1]
    /\ Len(allLanguages) = 1

\* C15: no filter-state action changes the tag index or the language index
\* while the collection stays the same.
C15_IndexesIgnoreFilterState ==
    [][/\ notes' = notes => (allTags' = allTags /\ allLanguages' = allLanguages)
       /\ posts' = posts => postAllTags' = postAllTags]_vars

\* a tag of the index that no note passing the filter carries
C15_Witness ==
    /\ view = "notes"
    /\ hasActiveFilters
    /\ \E k \in 1..Len(allTags) :
          \A i \in 1..Len(filteredNotes) :
              ~arrayIncludes(filteredNotes[i].tags, allTags[k])
    /\ \E k \in 1..Len(allLanguages) :
          \A i \in 1..Len(filteredNotes) :
              filteredNotes[i].language # Some(allLanguages[k])

\* C16: the tag index folds no case: every tag of a note is in the index as
\* written, so two tags that differ only in case are two entries.
C16_IndexKeepsCase ==
    /\ view = "notes" =>
          \A i \in 1..Len(notes) : \A k \in 1..Len(notes[i].tags) :
              arrayIncludes(allTags, notes[i].tags[k])
    /\ view = "posts" =>
          \A i \in 1..Len(posts) : \A k \in 1..Len(posts[i].tags) :
              arrayIncludes(postAllTags, posts[i].tags[k])

C16_Witness ==
    /\ view = "notes"
    /\ \E j \in 1..Len(allTags) : \E k \in 1..Len(allTags) :
          /\ j # k
          /\ allTags[j] = <<"A">>
          /\ allTags[k] = <<"a">>

-----------------------------------------------------------------------------
(* Properties of the features table's sort *)

Flipped(direction) == IF direction = "asc" THEN "desc" ELSE "asc"

\* C17: one of the four fields is active with a direction of asc or desc;
\* handleSort on the active field flips the direction and keeps the field,
\* handleSort on another field activates it ascending whatever the direction
\* was.
C17_SortState ==
    /\ [](view = "micronaut" =>
             sortField \in SortFields /\ sortDirection \in {"asc", "desc"})
    /\ [][\A field \in SortFields :
             HandleSort(field) =>
                 IF sortField = field
                 THEN sortField' = field /\ sortDirection' = Flipped(sortDirection)
                 ELSE sortField' = field /\ sortDirection' = "asc"]_vars

\* a descending sort on a field other than the initial one, with rows shown:
\* a click on another header has to reset the direction from here
C17_Witness ==
    /\ view = "micronaut"
    /\ sortField = "details" /\ sortDirection = "desc"
    /\ CanSort

SortKeysDistinct(rows, field) ==
    \A i \in 1..Len(rows) : \A j \in 1..Len(rows) :
        i # j => toLowerCase(rows[i][field]) # toLowerCase(rows[j][field])

\* C18: from field X ascending, two handleSort(X) in a row give (X, asc)
\* again and, the filters unchanged, the ascending row order again.
C18_SortToggleInvolution ==
    view = "micronaut" =>
        \A X \in SortFields :
            LET start == [sortField |-> X, sortDirection |-> "asc"]
                once  == handleSort(X, start)
                twice == handleSort(X, once)
                rows(st) == filterAndSort(features, featureSearchQuery,
                                          typeFilter, st.sortField,
                                          st.sortDirection)
            IN  /\ once = [sortField |-> X, sortDirection |-> "desc"]
                /\ twice = start
                /\ rows(twice) = rows(start)
                /\ (SortKeysDistinct(rows(start), X) /\ Len(rows(start)) > 1)
                       => rows(once) # rows(start)

\* an ascending sort over rows with distinct keys whose descending order
\* is another order
C18_Witness ==
    /\ view = "micronaut"
    /\ sortField = "type" /\ sortDirection = "asc"
    /\ Len(filteredAndSorted) >= 2
    /\ SortKeysDistinct(filteredAndSorted, sortField)
    /\ filterAndSort(features, featureSearchQuery, typeFilter, sortField, "desc")
           # filteredAndSorted

\* the rows that pass the text filter and the type filter, in source order
FilteredRows ==
    SelectSeq(features,
              LAMBDA f : /\ (trim(featureSearchQuery) = <<>>
                                \/ featureMatches(f, toLowerCase(featureSearchQuery)))
                         /\ (typeFilter = <<>> \/ f.type = typeFilter))

SourceIndex(f) == CHOOSE i \in 1..Len(features) : features[i] = f

\* C19: the displayed rows are a permutation of the filtered rows, ordered
\* by the lowercased active field, non-decreasing when ascending and
\* non-increasing when descending; rows with equal lowercased keys keep
\* their source order in both directions.
C19_SortedStablePermutation ==
    view = "micronaut" =>
        LET rows == filteredAndSorted
            key(f) == toLowerCase(f[sortField])
        IN  /\ Len(rows) = Len(FilteredRows)
            /\ Range(rows) = Range(FilteredRows)
            /\ \A i \in 1..Len(rows) : \A j \in 1..Len(rows) :
                  i < j =>
                      /\ sortDirection = "asc" => ~StringLess(key(rows[j]), key(rows[i]))
                      /\ sortDirection = "desc" => ~StringLess(key(rows[i]), key(rows[j]))
                      /\ key(rows[i]) = key(rows[j]) =>
                            SourceIndex(rows[i]) < SourceIndex(rows[j])

\* a descending sort that moved rows, two of them with keys equal up to case
C19_Witness ==
    /\ view = "micronaut"
    /\ sortDirection = "desc"
    /\ Len(filteredAndSorted) = 3
    /\ filteredAndSorted # FilteredRows
    /\ \E i \in 1..3 : \E j \in 1..3 :
          /\ i < j
          /\ filteredAndSorted[i][sortField] # filteredAndSorted[j][sortField]
          /\ toLowerCase(filteredAndSorted[i][sortField])
                = toLowerCase(filteredAndSorted[j][sortField])

-----------------------------------------------------------------------------
(* Properties of the goals list's expanded row *)

\* the goals whose row shows its details
ExpandedGoals ==
    {i \in 1..Len(goals) : expandedGoal = Some(goals[i].goal)}

\* C20: at most one goal is expanded; toggleExpand on the expanded goal
\* leaves none expanded, toggleExpand on any other goal leaves exactly that
\* goal expanded.
C20_ToggleExpand ==
    /\ [](view = "maven" =>
             /\ Cardinality(ExpandedGoals) <= 1
             /\ \A i \in 1..Len(goals) :
                   LET stored == toggleExpand(expandedGoal, goals[i].goal)
                   IN  IF expandedGoal = Some(goals[i].goal)
                       THEN stored = None
                       ELSE stored = Some(goals[i].goal))
    /\ [][\A i \in 1..Len(goals) :
             ToggleExpand(goals[i].goal) =>
                 /\ expandedGoal = Some(goals[i].goal) => ExpandedGoals' = {}
                 /\ expandedGoal # Some(goals[i].goal) => ExpandedGoals' = {i}]_vars

\* one goal expanded while the other one's row is there to click
C20_Witness ==
    /\ view = "maven"
    /\ Len(filtered) = 2
    /\ Cardinality(ExpandedGoals) = 1
    /\ \E i \in 1..Len(goals) : i \notin ExpandedGoals /\ CanExpand(goals[i].goal)

-----------------------------------------------------------------------------
(* Properties of the copy confirmation *)

\* a step in which the first pending clear timer fires
TimerFireStep == timers # <<>> /\ timers' = Tail(timers) /\ writes' = writes

\* a step in which a clipboard write resolves: it leaves flight and nothing
\* is logged
WriteResolveStep ==
    Len(writes') = Len(writes) - 1 /\ consoleErrors' = consoleErrors

\* a step in which a clipboard write rejects: the failure is logged
WriteRejectStep == consoleErrors' = consoleErrors + 1

\* C3: a clear timer that fires clears the confirmation only if the state
\* still shows the identifier it was scheduled for; a confirmation set by a
\* later copy survives the earlier timer.
C3_TimerClearsOnlyItsOwnConfirmation ==
    [][TimerFireStep =>
          /\ (view = "maven" /\ copiedGoal # Some(Head(timers)))
                => copiedGoal' = copiedGoal
          /\ (view = "micronaut" /\ copiedFeature # Some(Head(timers)))
                => copiedFeature' = copiedFeature]_vars

\* C4: a write that resolves for X sets confirmed(X) and schedules one clear
\* timer; while X's timer is the only copy outstanding the state stays
\* confirmed(X) through every step (another copy may start), until the timer
\* fires and leaves the state idle.
C4_ConfirmedUntilTimerFires ==
    [][/\ (WriteResolveStep /\ view = "maven") =>
              \E i \in 1..Len(writes) :
                  /\ writes' = RemoveAt(writes, i)
                  /\ copiedGoal' = Some(writes[i])
                  /\ timers' = Append(timers, writes[i])
       /\ (WriteResolveStep /\ view = "micronaut") =>
              \E i \in 1..Len(writes) :
                  /\ writes' = RemoveAt(writes, i)
                  /\ copiedFeature' = Some(writes[i])
                  /\ timers' = Append(timers, writes[i])
       /\ (view = "maven" /\ Len(timers) = 1 /\ writes = <<>>
              /\ copiedGoal = Some(timers[1])) =>
              \/ copiedGoal' = copiedGoal /\ timers' = timers
              \/ copiedGoal' = None /\ timers' = <<>> /\ writes' = <<>>
       /\ (view = "micronaut" /\ Len(timers) = 1 /\ writes = <<>>
              /\ copiedFeature = Some(timers[1])) =>
              \/ copiedFeature' = copiedFeature /\ timers' = timers
              \/ copiedFeature' = None /\ timers' = <<>> /\ writes' = <<>>
      ]_vars

C4_Witness ==
    /\ view = "maven"
    /\ Len(timers) = 1 /\ writes = <<>>
    /\ copiedGoal = Some(timers[1])
    /\ consoleErrors = 0

\* C5: a rejected clipboard write leaves the confirmation as it was,
\* schedules no timer, lets no error escape, and takes away no control:
\* whatever could be typed, expanded, sorted or copied before still can be.
C5_FailedWriteChangesNothing ==
    [][WriteRejectStep =>
          /\ copiedGoal' = copiedGoal /\ copiedFeature' = copiedFeature
          /\ timers' = timers
          /\ uncaught' = FALSE
          /\ view' = view
          /\ \A g \in GoalPool :
                /\ CanExpand(g.goal) => CanExpand(g.goal)'
                /\ CanCopyGoal(g.goal) => CanCopyGoal(g.goal)'
          /\ \A f \in FeaturePool :
                CanCopyFeature(f.feature) => CanCopyFeature(f.feature)'
          /\ CanSort => CanSort'
          /\ CanTrackCopy']_vars

C5_Witness ==
    /\ view = "maven"
    /\ consoleErrors = 1
    /\ copiedGoal = None /\ timers = <<>> /\ writes = <<>>
    /\ \E g \in GoalPool : CanCopyGoal(g.goal)

-----------------------------------------------------------------------------
(* Properties of the features table *)

\* p is q with whitespace added in front or behind
AddsOuterSpace(p, q) ==
    \E a \in 0..(Len(p) - Len(q)) :
        /\ SubSeq(p, a + 1, a + Len(q)) = q
        /\ \A i \in (1..a) \cup ((a + Len(q) + 1)..Len(p)) : p[i] = " "

\* C8: in the features table a non-empty query and the same query with
\* leading or trailing whitespace added select the same rows.
C8_FeatureQueryIsTrimmed ==
    view = "micronaut" =>
        \A q \in Queries :
            (q # <<>> /\ AddsOuterSpace(featureSearchQuery, q)) =>
                filteredAndSorted
                    = filterAndSort(features, q, typeFilter, sortField,
                                    sortDirection)

-----------------------------------------------------------------------------
(* The transient state against the filter and sort state *)

\* a copy click, a clipboard-write completion, a timer firing or an
\* expand/collapse click
TransientStep ==
    \/ \E i \in 1..Len(goals) :
          ToggleExpand(goals[i].goal) \/ CopyGoal(goals[i].goal)
    \/ \E i \in 1..Len(writes) : GoalWriteResolves(i) \/ GoalWriteRejects(i)
    \/ GoalTimerFires
    \/ \E i \in 1..Len(features) : CopyFeature(features[i].feature)
    \/ \E i \in 1..Len(writes) : FeatureWriteResolves(i) \/ FeatureWriteRejects(i)
    \/ FeatureTimerFires

\* a change of query or type filter, a click on a header, a clear
FilterSortStep ==
    \/ \E q \in GoalQueries : SetQuery(q)
    \/ \E q \in FeatureQueries : SetFeatureSearchQuery(q)
    \/ \E type \in TypePool \cup {<<>>} : SetTypeFilter(type)
    \/ \E field \in SortFields : HandleSort(field)
    \/ FeatureClearFilters

\* C21: copy clicks, write completions, timer firings and expand/collapse
\* clicks leave the query, the type filter, the sort state and the displayed
\* result alone; filter and sort actions leave the copied and the expanded
\* identifier alone.
C21_TransientStateOrthogonal ==
    [][/\ TransientStep =>
             /\ UNCHANGED <<query, featureSearchQuery, typeFilter,
                            sortField, sortDirection>>
             /\ filtered' = filtered
             /\ filteredAndSorted' = filteredAndSorted
       /\ FilterSortStep =>
             UNCHANGED <<copiedGoal, expandedGoal, copiedFeature>>]_vars

\* a goal expanded and confirmed under a query that shows both goals, its
\* clear timer pending
C21_Witness ==
    /\ view = "maven"
    /\ query # <<>> /\ Len(filtered) = 2
    /\ expandedGoal # None /\ copiedGoal = expandedGoal
    /\ timers # <<>>

-----------------------------------------------------------------------------
(* Properties of the content dates *)

\* the value the block gives to key, None when the block has no such line
\* or the line has nothing after the colon
Declared(block, key) ==
    LET lines == {i \in 1..Len(block) : block[i].key = key}
    IN  IF lines = {} THEN None ELSE block[CHOOSE i \in lines : TRUE].value

\* C22: for each file with a front-matter block the entry of its pathname is
\* the update date when the block has one, else the publish date when it has
\* one, and there is no entry when it has neither; a file without a block
\* gets no entry.
C22_ContentDatesPreferUpdate ==
    (view = "build" /\ contentDates # None) =>
        \A collection \in {"posts", "notes"} :
            contentFiles[collection] # None =>
                \A i \in 1..Len(contentFiles[collection][1]) :
                    LET file == contentFiles[collection][1][i]
                        key == pathnameOf(collection, slugOf(file.name))
                        map == contentDates[1]
                    IN  IF file.frontmatter = None THEN key \notin DOMAIN map
                        ELSE LET updated == Declared(file.frontmatter[1], "updatedDate")
                                 published == Declared(file.frontmatter[1], "pubDate")
                             IN  IF updated # None
                                 THEN key \in DOMAIN map /\ map[key] = updated[1]
                                 ELSE IF published # None
                                 THEN key \in DOMAIN map /\ map[key] = published[1]
                                 ELSE key \notin DOMAIN map

-----------------------------------------------------------------------------
(* The worked example of the notes filter *)

\* C24: over the records Lombok Tips (java, lombok) and DynamoDB Exists
\* (dynamodb, java): query java with no tag gives both, through their tags;
\* tag lombok with no query gives the first only; query java with tag lombok
\* gives the first only.
C24_LombokExample ==
    LET java == <<"j", "a", "v", "a">>
        lombok == <<"l", "o", "m", "b", "o", "k">>
    IN  notes = <<LombokTips, DynamoDBExists>> =>
            /\ (searchQuery = java /\ selectedTags = <<>>) =>
                  /\ filteredNotes = <<LombokTips, DynamoDBExists>>
                  /\ \A i \in 1..2 :
                        /\ ~includes(toLowerCase(notes[i].title), java)
                        /\ \E k \in 1..Len(notes[i].tags) :
                              includes(toLowerCase(notes[i].tags[k]), java)
            /\ (searchQuery = <<>> /\ selectedTags = <<lombok>>) =>
                  filteredNotes = <<LombokTips>>
            /\ (searchQuery = java /\ selectedTags = <<lombok>>) =>
                  filteredNotes = <<LombokTips>>

C24_Witness ==
    /\ notes = <<LombokTips, DynamoDBExists>>
    /\ searchQuery = <<"j", "a", "v", "a">>
    /\ selectedTags = << <<"l", "o", "m", "b", "o", "k">> >>
    /\ filteredNotes = <<LombokTips>>

-----------------------------------------------------------------------------
(* The copy confirmation and its clear timers *)

\* C25: a confirmation does not last: whenever a goal or a feature is shown
\* as copied, a later state shows none, and with no clear timer pending and
\* no write in flight none is shown.
C25_ConfirmationEnds ==
    /\ (copiedGoal # None) ~> (copiedGoal = None)
    /\ (copiedFeature # None) ~> (copiedFeature = None)
    /\ []((timers = <<>> /\ writes = <<>>) =>
             (copiedGoal = None /\ copiedFeature = None))

\* a confirmation shown while an earlier timer is pending behind it and a
\* further write is in flight
C25_Witness ==
    /\ copiedGoal # None \/ copiedFeature # None
    /\ timers # <<>>
    /\ writes # <<>>

\* C26: while an identifier is shown as copied a clear timer is pending;
\* a write that resolves schedules exactly one timer, a write that rejects
\* schedules none.
C26_ConfirmedHasPendingTimer ==
    /\ []((copiedGoal # None \/ copiedFeature # None) => Len(timers) >= 1)
    /\ [][/\ WriteResolveStep => Len(timers') = Len(timers) + 1
          /\ WriteRejectStep => timers' = timers]_vars

\* two confirmations in a row, the timers of both still pending
C26_Witness ==
    /\ copiedGoal # None \/ copiedFeature # None
    /\ Len(timers) = 2

-----------------------------------------------------------------------------
(* The goals search *)

\* C27: an empty or white-space-only query gives no goal; any other query
\* gives, in the order of the goals, those whose lowercased name or phase
\* contains the lowercased query, outer spaces included.
C27_GoalSearch ==
    view = "maven" =>
        IF \A k \in 1..Len(query) : IsWhiteSpace(query[k])
        THEN filtered = <<>>
        ELSE /\ \A i \in 1..Len(goals) :
                   (\E k \in 1..Len(filtered) : filtered[k] = goals[i])
                       <=> \/ includes(toLowerCase(goals[i].goal), toLowerCase(query))
                           \/ includes(toLowerCase(goals[i].phase), toLowerCase(query))
             /\ \A k \in 1..Len(filtered) : \A l \in 1..Len(filtered) :
                   k < l =>
                       \E i \in 1..Len(goals) : \E j \in 1..Len(goals) :
                           i < j /\ goals[i] = filtered[k] /\ goals[j] = filtered[l]

\* a query ending in a space that leaves out a goal its trimmed form is
\* found in
C27_Witness ==
    /\ view = "maven"
    /\ query = <<"b", " ">>
    /\ Len(goals) = 2 /\ Len(filtered) = 1
    /\ \E i \in 1..Len(goals) :
          /\ goals[i] # filtered[1]
          /\ includes(toLowerCase(goals[i].goal), trim(query))

-----------------------------------------------------------------------------
(* The tag selection and the language selection *)

NoDuplicate(s) ==
    \A i \in 1..Len(s) : \A j \in 1..Len(s) : i # j => s[i] # s[j]

\* C28: the selected-tag list never holds a tag twice; toggleTag(t) adds t
\* when it is absent and removes it when present, so two toggleTag(t) in a
\* row give the same set of selected tags and the same filtered list.
C28_ToggleTagTwice ==
    /\ view = "notes" =>
          /\ NoDuplicate(selectedTags)
          /\ \A k \in 1..Len(allTags) :
                LET t == allTags[k]
                    once == toggled(selectedTags, t)
                    twice == toggled(once, t)
                IN  /\ arrayIncludes(selectedTags, t) =>
                          Range(once) = Range(selectedTags) \ {t}
                    /\ ~arrayIncludes(selectedTags, t) =>
                          once = Append(selectedTags, t)
                    /\ NoDuplicate(twice)
                    /\ Range(twice) = Range(selectedTags)
                    /\ filterNotes(notes, searchQuery, twice, selectedLanguage)
                          = filteredNotes
    /\ view = "posts" =>
          /\ NoDuplicate(postSelectedTags)
          /\ \A k \in 1..Len(postAllTags) :
                LET twice == toggled(toggled(postSelectedTags, postAllTags[k]),
                                     postAllTags[k])
                IN  /\ Range(twice) = Range(postSelectedTags)
                    /\ filterPosts(posts, postSearchQuery, twice) = filteredPosts

\* two tags selected, the first of which two toggles move to the end
C28_Witness ==
    /\ view = "notes"
    /\ Len(selectedTags) = 2
    /\ Len(filteredNotes) >= 1
    /\ toggled(toggled(selectedTags, selectedTags[1]), selectedTags[1])
          = <<selectedTags[2], selectedTags[1]>>

\* C29: the language selection is none or one language; a click on the
\* selected language clears it, a click on another language replaces it,
\* and neither changes the query or the selected tags.
C29_LanguageSelection ==
    /\ [](view = "notes" =>
             (selectedLanguage = <<>> \/ arrayIncludes(allLanguages, selectedLanguage)))
    /\ [][\A lang \in LanguagePool :
             SelectLanguage(lang) =>
                 /\ selectedLanguage = lang => selectedLanguage' = <<>>
                 /\ selectedLanguage # lang => selectedLanguage' = lang
                 /\ UNCHANGED <<searchQuery, selectedTags>>]_vars

\* a language selected next to a query and a tag, another language on offer
C29_Witness ==
    /\ view = "notes"
    /\ selectedLanguage # <<>>
    /\ searchQuery # <<>> /\ selectedTags # <<>>
    /\ Len(allLanguages) = 2

-----------------------------------------------------------------------------
(* Properties of the feed *)

\* the items of the feed that link to the entry slug of collection
ItemsOf(items, collection, slug) ==
    {k \in 1..Len(items) : items[k].link = <<collection, slug>>}

\* C30: the feed has one item per post and per note that is not a draft and
\* none for a draft; its items are in non-increasing order of publish date,
\* posts and notes together; a note without a description gets the
\* description made from its title.
C30_FeedItems ==
    (view = "feed" /\ feed # None) =>
        LET items == feed[1]
        IN  /\ \A collection \in {"posts", "notes"} :
                  \A i \in 1..Len(entries[collection]) :
                      LET entry == entries[collection][i]
                          own == ItemsOf(items, collection, entry.slug)
                      IN  /\ entry.draft => own = {}
                          /\ ~entry.draft =>
                                /\ Cardinality(own) = 1
                                /\ \A k \in own :
                                      /\ items[k].title = entry.title
                                      /\ items[k].pubDate = entry.pubDate
                                      /\ (collection = "notes"
                                             /\ entry.description = None) =>
                                            items[k].description =
                                                entry.title \o FallbackSuffix
                                      /\ entry.description # None =>
                                            items[k].description = entry.description[1]
            /\ \A k \in 1..Len(items) :
                  \E collection \in {"posts", "notes"} :
                      \E i \in 1..Len(entries[collection]) :
                          items[k].link = <<collection, entries[collection][i].slug>>
            /\ \A k \in 1..(Len(items) - 1) :
                  items[k].pubDate >= items[k + 1].pubDate

\* a feed that opens with a note without a description, ahead of an older
\* post, while a draft post is left out
C30_Witness ==
    /\ view = "feed" /\ feed # None
    /\ Len(feed[1]) = 2
    /\ feed[1][1].link[1] = "notes" /\ feed[1][2].link[1] = "posts"
    /\ feed[1][1].pubDate > feed[1][2].pubDate
    /\ entries.notes[1].description = None
    /\ \E i \in 1..Len(entries.posts) : entries.posts[i].draft

====
